---- MODULE Spec2Model ----
(***************************************************************************)
(* Model of app.py, the Streamlit front end that turns a topic into a      *)
(* PowerPoint carousel: form, input validation, two Groq completions       *)
(* (free text, then structured into a Carousel), build_pptx, download.     *)
(*                                                                         *)
(* Strings the code inspects character by character (the topic, the file   *)
(* name) are sequences of one-character strings; all other texts are       *)
(* atomic strings.  A Python local that is not yet bound is the empty      *)
(* sequence <<>>, a bound one the one-element sequence <<value>>.          *)
(***************************************************************************)
EXTENDS Integers, Sequences, FiniteSets, TLC

VARIABLES
    environ,      \* os.environ["GROQ_API_KEY"] of the server process ("" = unset)
    secrets,      \* st.secrets["GROQ_API_KEY"] ("" = unset)
    pc,           \* per browser session: position of its script run
    api_default,  \* per session: value computed at line 140 in its last run
    topic,        \* per session: submitted topic (sequence of characters)
    api_key,      \* per session: submitted credential
    log,          \* per session: operations the current run has performed
    raw_response, \* per session: text returned by llm.complete
    response,     \* per session: payload the structured completion produced
    carousel,     \* per session: validated Carousel
    ppt_buf,      \* per session: document returned by build_pptx
    shown,        \* per session: st.error / st.success elements emitted
    download,     \* per session: st.download_button arguments
    exc           \* per session: exception that left the script uncaught (the
                  \* Streamlit runtime puts an uncaught exception on the page)

vars == <<environ, secrets, pc, api_default, topic, api_key, log, raw_response,
          response, carousel, ppt_buf, shown, download, exc>>

----------------------------------------------------------------------------
(* Bounds of the model *)

NumSessions == 2
MaxQA == 3
MaxTopicLen == 3

(* Numbers written in the source *)

TitlePt == 54
SubtitlePt == 34
QuestionPt == 40
AnswerPt == 30
SlideSide == 10287000
PromptMinQA == 5
PromptMaxQA == 8

----------------------------------------------------------------------------
(* Generic helpers *)

SeqsUpTo(S, n) == UNION {[1..k -> S] : k \in 0..n}

----------------------------------------------------------------------------
(* Pydantic models, lines 41-57.  A payload is the JSON object the         *)
(* structured completion produced; a key that is absent is <<>>, a present *)
(* one <<value>>.                                                          *)

CoverSlide(c) == c.type = "cover"

\* Variant: type declared as str, so any tag passes.
QASlide_AnyTag(q) == TRUE

QASlide(q) == q.type = "qa"

Carousel(p) ==
    /\ Len(p.cover) = 1
    /\ CoverSlide(p.cover[1])
    /\ Len(p.qa_slides) = 1
    /\ \A i \in 1..Len(p.qa_slides[1]) : QASlide(p.qa_slides[1][i])

\* The typed object pydantic constructs from an accepted payload.
Parse(p) == [cover |-> p.cover[1], qa_slides |-> p.qa_slides[1]]

----------------------------------------------------------------------------
(* PPTX helpers, lines 70-81 *)

Pt(n) == n * 12700

\* A placeholder's text frame as the layout gives it, before the code styles it.
LayoutFrame ==
    [text |-> "", vertical_anchor |-> "inherit",
     margin_left |-> 91440, margin_right |-> 91440,
     margin_top |-> 45720, margin_bottom |-> 45720,
     font_name |-> "inherit", font_size |-> 0, font_bold |-> FALSE,
     font_rgb |-> <<-1, -1, -1>>, alignment |-> "inherit"]

LayoutSlide(layout) ==
    [layout |-> layout, bg_fill |-> "inherit", bg_rgb |-> <<-1, -1, -1>>,
     title |-> LayoutFrame, body |-> LayoutFrame]

\* Variant: the background is left as the layout gives it.
_black_bg_NoFill(slide) == slide

_black_bg(slide) == [slide EXCEPT !.bg_fill = "solid", !.bg_rgb = <<0, 0, 0>>]

_style_para(tf, font_size, bold) ==
    [tf EXCEPT !.font_name = "Calibri", !.font_size = Pt(font_size),
               !.font_bold = bold, !.font_rgb = <<255, 255, 255>>,
               !.alignment = "LEFT"]

\* tf.clear(); anchor; four margins; _style_para; paragraphs[0].text = text
\* (the statement group repeated at lines 95-99, 101-105, 112-116, 118-122).
FillFrame(tf, font_size, bold, text) ==
    LET cleared  == [tf EXCEPT !.text = ""]
        anchored == [cleared EXCEPT !.vertical_anchor = "TOP"]
        margined == [anchored EXCEPT !.margin_left = 0, !.margin_right = 0,
                                     !.margin_top = 0, !.margin_bottom = 0]
        styled   == _style_para(margined, font_size, bold)
    IN  [styled EXCEPT !.text = text]

CoverOf(cover) ==
    LET slide == _black_bg(LayoutSlide(0))
    IN  [slide EXCEPT
            !.title = FillFrame(slide.title, TitlePt, TRUE, cover.title),
            !.body  = FillFrame(slide.body, SubtitlePt, FALSE, cover.subtitle)]

QAOf(qa) ==
    LET slide == _black_bg(LayoutSlide(1))
    IN  [slide EXCEPT
            !.title = FillFrame(slide.title, QuestionPt, TRUE, qa.question),
            !.body  = FillFrame(slide.body, AnswerPt, FALSE, qa.answer)]

\* The for loop of lines 108-122: one add_slide per element, in list order.
RECURSIVE AddQASlides(_, _)
AddQASlides(slides, qas) ==
    IF qas = <<>> THEN slides
    ELSE AddQASlides(Append(slides, QAOf(Head(qas))), Tail(qas))

\* Variant: the loop stops after PromptMaxQA question/answer slides.
build_pptx_Capped(c) ==
    [slide_width |-> SlideSide, slide_height |-> SlideSide,
     slides |-> AddQASlides(<<CoverOf(c.cover)>>,
                            SubSeq(c.qa_slides, 1,
                                   IF Len(c.qa_slides) < PromptMaxQA
                                   THEN Len(c.qa_slides) ELSE PromptMaxQA)),
     pos |-> 0]

RECURSIVE SortedInsert(_, _)
SortedInsert(q, l) ==
    IF l = <<>> THEN <<q>>
    ELSE IF q.slide_number < Head(l).slide_number THEN <<q>> \o l
    ELSE <<Head(l)>> \o SortedInsert(q, Tail(l))

RECURSIVE SortByNumber(_)
SortByNumber(l) ==
    IF l = <<>> THEN <<>> ELSE SortedInsert(Head(l), SortByNumber(Tail(l)))

\* Variant: slides laid out in slide_number order instead of list order.
build_pptx_ByNumber(c) ==
    [slide_width |-> SlideSide, slide_height |-> SlideSide,
     slides |-> AddQASlides(<<CoverOf(c.cover)>>, SortByNumber(c.qa_slides)),
     pos |-> 0]

build_pptx(c) ==
    [slide_width |-> SlideSide, slide_height |-> SlideSide,
     slides |-> AddQASlides(<<CoverOf(c.cover)>>, c.qa_slides),
     pos |-> 0]

----------------------------------------------------------------------------
(* File name and MIME type, lines 167-174 *)

FilePrefix ==
    <<"L","i","n","k","e","d","I","n","_","C","a","r","o","u","s","e","l","_">>

FileExt == <<".","p","p","t","x">>

PptxMime ==
    "application/vnd.openxmlformats-officedocument.presentationml.presentation"

\* Variant: str.replace(' ', '_', 1), only the first space.
RECURSIVE Replace_FirstOnly(_)
Replace_FirstOnly(t) ==
    IF t = <<>> THEN <<>>
    ELSE IF Head(t) = " " THEN <<"_">> \o Tail(t)
    ELSE <<Head(t)>> \o Replace_FirstOnly(Tail(t))

\* str.replace(' ', '_')
RECURSIVE Replace(_)
Replace(t) ==
    IF t = <<>> THEN <<>>
    ELSE <<IF Head(t) = " " THEN "_" ELSE Head(t)>> \o Replace(Tail(t))

FileName(t) == FilePrefix \o Replace(t) \o FileExt

----------------------------------------------------------------------------
(* Input domains *)

Sessions == 1..NumSessions

Alphabet == {"a", "7", " ", "/"}

AllTopics == SeqsUpTo(Alphabet, MaxTopicLen)

FewTopics == {<<>>, <<"a", " ">>}

OneTopic == {<<"A", "I">>}

TypedKeys == {"", "kA"}

OneKey == {"kA"}

RawTexts == {"Topic: ... Questions & Answers: ..."}

CoverPayloads ==
    [slide_number : {1, 2}, type : {"cover", "qa"}, title : {"", "T"},
     subtitle : {"S"}]

QAPayloads ==
    [slide_number : {2, 3}, type : {"qa", "cover"}, question : {"Q1", "Q2"},
     answer : {"A"}]

\* A list of n well-formed question/answer objects, numbered from 2.
LongQA(n) ==
    [i \in 1..n |-> [slide_number |-> i + 1, type |-> "qa",
                     question |-> IF i % 2 = 1 THEN "Q1" ELSE "Q2",
                     answer |-> "A"]]

GoodCover == [slide_number |-> 1, type |-> "cover", title |-> "T", subtitle |-> "S"]

AllPayloads ==
    [cover : {<<>>} \cup {<<c>> : c \in CoverPayloads},
     qa_slides : {<<>>} \cup {<<l>> : l \in SeqsUpTo(QAPayloads, MaxQA)}]
    \cup {[cover |-> <<GoodCover>>, qa_slides |-> <<LongQA(n)>>] :
            n \in {PromptMinQA, PromptMaxQA + 1}}

FewPayloads ==
    {[cover |-> <<GoodCover>>, qa_slides |-> <<LongQA(1)>>],
     [cover |-> <<>>, qa_slides |-> <<LongQA(1)>>]}

OnePayload == {[cover |-> <<GoodCover>>, qa_slides |-> <<LongQA(1)>>]}

DotEnvValues == {"", "kD"}

----------------------------------------------------------------------------
(* The script, lines 133-177 *)

\* Line 140: os.getenv("GROQ_API_KEY", "") or st.secrets.get("GROQ_API_KEY", "")
ApiDefault(env, sec) == IF env # "" THEN env ELSE sec

\* Lines 146-151: which st.error, if any, ends the run.
\* Variant: the credential check of lines 149-151 is missing.
InputError_TopicOnly(t, k) == IF t = <<>> THEN "Please enter a topic." ELSE "none"

InputError(t, k) ==
    IF t = <<>> THEN "Please enter a topic."
    ELSE IF k = "" THEN "Please enter your Groq API key."
    ELSE "none"

\* Line 153: load_dotenv(override=False) with d the GROQ_API_KEY of the .env file.
load_dotenv(env, d) == IF env = "" THEN d ELSE env

\* Line 154: os.environ["GROQ_API_KEY"] = api_key
setenv(env, k) == k

\* Variant: a failed call is attempted again.
NextPc_Retry(stage, outcome) ==
    IF outcome = "raise" THEN stage
    ELSE IF stage = "llm" THEN "sllm" ELSE "render"

\* Variant: the pipeline starts over after the structured completion.
NextPc_Again(stage, outcome) ==
    IF outcome = "raise" THEN "raised"
    ELSE IF stage = "llm" THEN "sllm" ELSE "llm"

\* Where the run goes after a step of lines 157-166: an exception is not
\* caught anywhere in the script, so it ends the run.
NextPc(stage, outcome) ==
    IF outcome = "raise" THEN "raised"
    ELSE IF stage = "llm" THEN "sllm" ELSE "render"

Idle == {"form", "stopped", "raised", "done"}

\* The locals of lines 156-175, before a run has bound them.
Fresh(s) ==
    /\ log' = [log EXCEPT ![s] = <<>>]
    /\ raw_response' = [raw_response EXCEPT ![s] = <<>>]
    /\ response' = [response EXCEPT ![s] = <<>>]
    /\ carousel' = [carousel EXCEPT ![s] = <<>>]
    /\ ppt_buf' = [ppt_buf EXCEPT ![s] = <<>>]
    /\ download' = [download EXCEPT ![s] = <<>>]
    /\ exc' = [exc EXCEPT ![s] = "none"]

Init ==
    /\ environ \in {"", "kE"}
    /\ secrets \in {"", "kS"}
    /\ pc = [s \in Sessions |-> "closed"]
    /\ api_default = [s \in Sessions |-> ""]
    /\ topic = [s \in Sessions |-> <<>>]
    /\ api_key = [s \in Sessions |-> ""]
    /\ log = [s \in Sessions |-> <<>>]
    /\ raw_response = [s \in Sessions |-> <<>>]
    /\ response = [s \in Sessions |-> <<>>]
    /\ carousel = [s \in Sessions |-> <<>>]
    /\ ppt_buf = [s \in Sessions |-> <<>>]
    /\ shown = [s \in Sessions |-> <<>>]
    /\ download = [s \in Sessions |-> <<>>]
    /\ exc = [s \in Sessions |-> "none"]

\* A run without a submit (page load): lines 133-143 and 177.
Load(s) ==
    /\ pc[s] \in Idle \cup {"closed"}
    /\ api_default' = [api_default EXCEPT ![s] = ApiDefault(environ, secrets)]
    /\ topic' = [topic EXCEPT ![s] = <<>>]
    /\ api_key' = [api_key EXCEPT ![s] = api_default'[s]]
    /\ pc' = [pc EXCEPT ![s] = "form"]
    /\ shown' = [shown EXCEPT ![s] = <<>>]
    /\ Fresh(s)
    /\ UNCHANGED <<environ, secrets>>

\* A run with submit: lines 133-154.  The user types the topic and either
\* leaves the credential field as the last run filled it or types one.
Submit(s, T, K) ==
    /\ pc[s] \in Idle
    /\ \E t \in T, k \in K \cup {api_default[s]}, d \in DotEnvValues :
         /\ api_default' = [api_default EXCEPT ![s] = ApiDefault(environ, secrets)]
         /\ topic' = [topic EXCEPT ![s] = t]
         /\ api_key' = [api_key EXCEPT ![s] = k]
         /\ Fresh(s)
         /\ IF InputError(t, k) # "none"
            THEN /\ shown' = [shown EXCEPT ![s] = <<InputError(t, k)>>]
                 /\ pc' = [pc EXCEPT ![s] = "stopped"]
                 /\ UNCHANGED environ
            ELSE /\ shown' = [shown EXCEPT ![s] = <<>>]
                 /\ environ' = setenv(load_dotenv(environ, d), k)
                 /\ pc' = [pc EXCEPT ![s] = "llm"]
    /\ UNCHANGED secrets

\* Lines 158-161: llm.complete(prompt).text, or the call raises.
LlmComplete(s) ==
    /\ pc[s] = "llm"
    /\ log' = [log EXCEPT ![s] = Append(@, "complete")]
    /\ \/ /\ exc' = [exc EXCEPT ![s] = "TransportFailure"]
          /\ pc' = [pc EXCEPT ![s] = NextPc("llm", "raise")]
          /\ UNCHANGED raw_response
       \/ /\ \E r \in RawTexts : raw_response' = [raw_response EXCEPT ![s] = <<r>>]
          /\ pc' = [pc EXCEPT ![s] = NextPc("llm", "return")]
          /\ UNCHANGED exc
    /\ UNCHANGED <<environ, secrets, api_default, topic, api_key, response,
                   carousel, ppt_buf, shown, download>>

\* Line 162: sllm.complete(raw_response): the call raises, or the service's
\* payload is validated against Carousel.
SllmComplete(s, P) ==
    /\ pc[s] = "sllm"
    /\ log' = [log EXCEPT ![s] = Append(@, "structured")]
    /\ \/ /\ exc' = [exc EXCEPT ![s] = "TransportFailure"]
          /\ pc' = [pc EXCEPT ![s] = NextPc("sllm", "raise")]
          /\ UNCHANGED <<response, carousel>>
       \/ \E p \in P :
          /\ response' = [response EXCEPT ![s] = <<p>>]
          /\ IF Carousel(p)
             THEN /\ carousel' = [carousel EXCEPT ![s] = <<Parse(p)>>]
                  /\ pc' = [pc EXCEPT ![s] = NextPc("sllm", "return")]
                  /\ UNCHANGED exc
             ELSE /\ exc' = [exc EXCEPT ![s] = "SchemaViolation"]
                  /\ pc' = [pc EXCEPT ![s] = NextPc("sllm", "raise")]
                  /\ UNCHANGED carousel
    /\ UNCHANGED <<environ, secrets, api_default, topic, api_key, raw_response,
                   ppt_buf, shown, download>>

\* Lines 165-175: build_pptx, file_name, st.success, st.download_button.
Render(s) ==
    /\ pc[s] = "render"
    /\ Len(carousel[s]) = 1
    /\ log' = [log EXCEPT ![s] = Append(@, "build")]
    /\ ppt_buf' = [ppt_buf EXCEPT ![s] = <<build_pptx(carousel[s][1])>>]
    /\ shown' = [shown EXCEPT ![s] = Append(@, "Done! Download your deck below.")]
    /\ download' = [download EXCEPT ![s] =
                      <<[data |-> ppt_buf'[s][1], file_name |-> FileName(topic[s]),
                         mime |-> PptxMime]>>]
    /\ pc' = [pc EXCEPT ![s] = "done"]
    /\ UNCHANGED <<environ, secrets, api_default, topic, api_key, raw_response,
                   response, carousel, exc>>

NextOver(S, T, K, P) ==
    \E s \in S :
        \/ Load(s)
        \/ Submit(s, T, K)
        \/ LlmComplete(s)
        \/ SllmComplete(s, P)
        \/ Render(s)

\* Concurrent browser sessions of one server process, few inputs.
Next == NextOver(Sessions, FewTopics, TypedKeys, FewPayloads)

Spec == Init /\ [][Next]_vars

\* One session, every payload of the bounded domain.
NextOutline == NextOver({1}, OneTopic, OneKey, AllPayloads)

SpecOutline == Init /\ [][NextOutline]_vars

\* One session, every topic of the bounded domain.
NextTopic == NextOver({1}, AllTopics, OneKey, OnePayload)

SpecTopic == Init /\ [][NextTopic]_vars

----------------------------------------------------------------------------
(* Vocabulary of the properties *)

Calls(l) == SelectSeq(l, LAMBDA op : op \in {"complete", "structured"})

Builds(l) == SelectSeq(l, LAMBDA op : op = "build")

IsPrefix(a, b) == Len(a) <= Len(b) /\ a = SubSeq(b, 1, Len(a))

Pipeline == <<"complete", "structured", "build">>

InputErrors == {"Please enter a topic.", "Please enter your Groq API key."}

Submitted(s) == pc[s] \notin {"closed", "form"}

MissingCover(p) == p.cover = <<>>

MissingQA(p) == p.qa_slides = <<>>

EmptyQA(p) == p.qa_slides = << <<>> >>

WrongTag(p) ==
    \/ Len(p.cover) = 1 /\ p.cover[1].type # "cover"
    \/ Len(p.qa_slides) = 1 /\ \E i \in 1..Len(p.qa_slides[1]) :
                                    p.qa_slides[1][i].type # "qa"

Rejected(s) ==
    /\ exc[s] = "SchemaViolation"
    /\ carousel[s] = <<>>
    /\ ppt_buf[s] = <<>>
    /\ download[s] = <<>>
    /\ Builds(log[s]) = <<>>

Alnum == {"a", "7", "A", "I"}

\* The part of an offered file name between the fixed prefix and extension.
Middle(f) == SubSeq(f, Len(FilePrefix) + 1, Len(f) - Len(FileExt))

Frames(slide) == {slide.title, slide.body}

----------------------------------------------------------------------------
(* Properties *)

\* C1: a submit with an empty topic or an empty credential ends the run with
\* exactly one input-error message, and that run makes no completion call,
\* builds no outline, renders no document and offers no download.
C1_InputErrorStops ==
    \A s \in Sessions :
        (Submitted(s) /\ (topic[s] = <<>> \/ api_key[s] = "")) =>
            /\ pc[s] = "stopped"
            /\ Len(shown[s]) = 1 /\ shown[s][1] \in InputErrors
            /\ log[s] = <<>>
            /\ raw_response[s] = <<>> /\ response[s] = <<>>
            /\ carousel[s] = <<>>
            /\ ppt_buf[s] = <<>>
            /\ download[s] = <<>>

\* C1 witness: a run stopped for the empty credential with a topic given.
C1_Witness ==
    \E s \in Sessions :
        /\ pc[s] = "stopped" /\ topic[s] # <<>> /\ api_key[s] = ""
        /\ shown[s] = <<"Please enter your Groq API key.">>

\* C2 as stated: a validated submission makes exactly one outbound call to
\* the completion service and never a second one.
C2_ExactlyOneCall ==
    \A s \in Sessions :
        /\ Len(Calls(log[s])) <= 1
        /\ pc[s] = "done" => Len(Calls(log[s])) = 1

\* C2 amended: a validated submission makes the free-text completion call
\* once and, only after it returned, the structured completion call once (at
\* most two outbound calls, none repeated), then at most one rendering pass;
\* a finished run made exactly the two calls and one rendering pass.
C2_TwoCallsOnePass ==
    \A s \in Sessions :
        /\ IsPrefix(log[s], Pipeline)
        /\ pc[s] \in {"sllm"} => log[s] = <<"complete">>
        /\ pc[s] \in {"render"} => log[s] = <<"complete", "structured">>
        /\ pc[s] = "done" => log[s] = Pipeline
        /\ pc[s] = "llm" => log[s] = <<>>

\* C2 witness: a finished run with both calls and the rendering pass.
C2_Witness ==
    \E s \in Sessions : pc[s] = "done" /\ log[s] = Pipeline /\ download[s] # <<>>

\* C3 as stated: a payload missing the cover, or with zero question/answer
\* pairs, or with a wrong tag is rejected and never rendered.
C3_RejectsZeroPairs ==
    \A s \in Sessions :
        (response[s] # <<>> /\ ( \/ MissingCover(response[s][1])
                                 \/ MissingQA(response[s][1])
                                 \/ EmptyQA(response[s][1])
                                 \/ WrongTag(response[s][1]) ))
            => Rejected(s)

\* C3 amended: a payload missing the cover, or missing the qa_slides list, or
\* with a wrong tag is rejected with a schema violation and never rendered;
\* a payload whose qa_slides list is present but empty is not rejected for
\* that reason: with a well-tagged cover it is accepted.
C3_RejectsMalformed ==
    \A s \in Sessions :
        response[s] # <<>> =>
            /\ ( \/ MissingCover(response[s][1])
                 \/ MissingQA(response[s][1])
                 \/ WrongTag(response[s][1]) ) => Rejected(s)
            /\ ( /\ EmptyQA(response[s][1])
                 /\ ~MissingCover(response[s][1])
                 /\ ~WrongTag(response[s][1]) )
                   => (exc[s] = "none" /\ carousel[s] # <<>>)

\* C3 witness: a payload whose only defect is a wrong tag on a question/answer
\* object has been rejected.
C3_Witness ==
    \E s \in Sessions :
        /\ response[s] # <<>>
        /\ Len(response[s][1].cover) = 1 /\ response[s][1].cover[1].type = "cover"
        /\ Len(response[s][1].qa_slides) = 1
        /\ \E i \in 1..Len(response[s][1].qa_slides[1]) :
               response[s][1].qa_slides[1][i].type # "qa"
        /\ pc[s] = "raised" /\ Rejected(s)

\* C4: handling a request changes nothing a later or concurrent request
\* reads: the credential default a run would compute is never changed by
\* any step of any request.
C4_DefaultUnaffected ==
    [][ApiDefault(environ', secrets') = ApiDefault(environ, secrets)]_vars

C6_SlideCount ==
    \A s \in Sessions :
        /\ ppt_buf[s] # <<>> =>
             Len(ppt_buf[s][1].slides) = 1 + Len(carousel[s][1].qa_slides)
        /\ pc[s] = "done" => (ppt_buf[s] # <<>> /\ exc[s] = "none")

\* C6 witness: a rendered outline longer than the prompt asks for.
C6_Witness ==
    \E s \in Sessions :
        /\ pc[s] = "done"
        /\ Len(carousel[s][1].qa_slides) = PromptMaxQA + 1
        /\ Len(ppt_buf[s][1].slides) = PromptMaxQA + 2

\* C7: the first slide carries the cover's title and subtitle, and the slide
\* after it at offset i carries the question and answer of the i-th record of
\* qa_slides, in list order whatever the records' slide_number values are.
C7_TextsInListOrder ==
    \A s \in Sessions :
        ppt_buf[s] # <<>> =>
            LET O == carousel[s][1]
                D == ppt_buf[s][1].slides
            IN  /\ D[1].title.text = O.cover.title
                /\ D[1].body.text = O.cover.subtitle
                /\ \A i \in 1..Len(O.qa_slides) :
                       /\ i + 1 \in DOMAIN D
                       /\ D[i + 1].title.text = O.qa_slides[i].question
                       /\ D[i + 1].body.text = O.qa_slides[i].answer

\* C7 witness: a rendered outline whose records carry decreasing slide_number
\* values and different questions.
C7_Witness ==
    \E s \in Sessions :
        /\ ppt_buf[s] # <<>>
        /\ Len(carousel[s][1].qa_slides) >= 2
        /\ carousel[s][1].qa_slides[1].slide_number
             > carousel[s][1].qa_slides[2].slide_number
        /\ carousel[s][1].qa_slides[1].question
             # carousel[s][1].qa_slides[2].question

\* C8 as stated: every character of the topic that is not alphanumeric is
\* replaced, so the offered file name has only letters, digits and the
\* replacement character between its fixed prefix and extension.
C8_OnlySafeChars ==
    \A s \in Sessions :
        download[s] # <<>> =>
            /\ \A i \in DOMAIN Middle(download[s][1].file_name) :
                   Middle(download[s][1].file_name)[i] \in Alnum \cup {"_"}
            /\ download[s][1].mime = PptxMime

\* C8 amended: the offered file name is the fixed prefix, the topic with every
\* space replaced by "_" and every other character kept as it is, and the
\* fixed extension; so no space of the topic survives, while any other
\* non-alphanumeric character does; the content type is the fixed one.
C8_SpacesReplaced ==
    \A s \in Sessions :
        download[s] # <<>> =>
            LET f == download[s][1].file_name
                m == Middle(f)
            IN  /\ IsPrefix(FilePrefix, f)
                /\ SubSeq(f, Len(f) - Len(FileExt) + 1, Len(f)) = FileExt
                /\ Len(m) = Len(topic[s])
                /\ \A i \in DOMAIN m :
                       m[i] = IF topic[s][i] = " " THEN "_" ELSE topic[s][i]
                /\ download[s][1].mime = PptxMime

\* C8 witness: a download offered for a topic with two spaces and a slash,
\* the slash still in the file name.
C8_Witness ==
    \E s \in Sessions :
        /\ download[s] # <<>>
        /\ topic[s] = <<" ", "/", " ">>
        /\ Middle(download[s][1].file_name) = <<"_", "/", "_">>

\* C9: every accepted outline has cover position 1, question/answer positions
\* 2, 3, ... in sequence, and non-empty title, subtitle, question and answer.
C9_ShapeHolds ==
    \A s \in Sessions :
        carousel[s] # <<>> =>
            LET O == carousel[s][1]
            IN  /\ O.cover.slide_number = 1
                /\ O.cover.title # "" /\ O.cover.subtitle # ""
                /\ \A i \in 1..Len(O.qa_slides) :
                       /\ O.qa_slides[i].slide_number = i + 1
                       /\ O.qa_slides[i].question # ""
                       /\ O.qa_slides[i].answer # ""

\* C10: every slide of the returned document has a solid black background and
\* two text regions that are white, left-aligned, top-anchored and without
\* margins; title is larger than question, question larger than answer, title
\* larger than subtitle; title and question are bold, subtitle and answer not.
C10_Theme ==
    \A s \in Sessions :
        ppt_buf[s] # <<>> =>
            LET D == ppt_buf[s][1].slides
            IN  /\ \A n \in DOMAIN D :
                       /\ D[n].bg_fill = "solid" /\ D[n].bg_rgb = <<0, 0, 0>>
                       /\ \A tf \in Frames(D[n]) :
                              /\ tf.font_rgb = <<255, 255, 255>>
                              /\ tf.alignment = "LEFT"
                              /\ tf.vertical_anchor = "TOP"
                              /\ tf.margin_left = 0 /\ tf.margin_right = 0
                              /\ tf.margin_top = 0 /\ tf.margin_bottom = 0
                       /\ D[n].title.font_bold /\ ~D[n].body.font_bold
                /\ D[1].title.font_size > D[1].body.font_size
                /\ \A n \in DOMAIN D \ {1} :
                       /\ D[1].title.font_size > D[n].title.font_size
                       /\ D[n].title.font_size > D[n].body.font_size

\* C10 witness: a returned document with a cover and two question slides.
C10_Witness ==
    \E s \in Sessions :
        /\ pc[s] = "done"
        /\ Len(ppt_buf[s][1].slides) = 3
        /\ ppt_buf[s][1].slides[3].layout = 1

====
